---- MODULE Spec2Model ----
(***************************************************************************)
(* Model of backend/app/main.py: the POST /detect handler, the             *)
(* BikeDetectionModel adapter (lazy client, remote call, reply parsing,    *)
(* normalisation) and its random fallback.                                 *)
(*                                                                         *)
(* Numbers.  A confidence is a Python float; the model keeps it as an      *)
(* exact fraction [num, den] with den > 0, so "c / total" is the fraction  *)
(* c over total and sums are exact.  A reply's confidences are integers    *)
(* (units of an arbitrary step), a random score k stands for the float     *)
(* k / (MaxScore + 1) of the half-open interval [0, 1).                    *)
(*                                                                         *)
(* Text.  The reply of the remote model is a sequence of tokens; find,     *)
(* rfind and the slice work on token positions as the code's work on       *)
(* character positions, and json_loads is a parser of the token grammar    *)
(*   object ::= "{" [ member { "," member } ] "}"                          *)
(*   member ::= "predictions:" array | field                               *)
(*   array  ::= "[" [ entry { "," entry } ] "]"                            *)
(*   entry  ::= "{" [ field { "," field } ] "}"                            *)
(*   field  ::= model | confidence | other                                 *)
(***************************************************************************)
EXTENDS Integers, Sequences, FiniteSets, TLC

\* ------------------------------------------------------------------ bounds

\* Concurrent request slots of the event loop.
NumRequests == 2
\* Longest predictions list a reply carries.
MaxPreds == 3
\* Largest confidence a reply carries (the smallest is -1).
MaxConf == 2
\* Largest random score numerator of the fallback.
MaxScore == 1

\* ------------------------------------------------------- program constants

BIKE_MODELS ==
  << "Honda CBR600RR", "Yamaha YZF-R1", "Kawasaki Ninja ZX-10R",
     "Suzuki GSX-R1000", "Ducati Panigale V4", "BMW S1000RR", "Aprilia RSV4",
     "KTM RC 390", "Triumph Daytona 675", "MV Agusta F3" >>

\* The fallback keeps the last three of the ascending argsort.
TopK == 3

\* A label the remote model may answer with although the prompt does not list it.
UnknownLabel == "Vespa GTS 300"

Labels == { BIKE_MODELS[i] : i \in 1..Len(BIKE_MODELS) }

\* --------------------------------------------------------------- fractions

Frac(n, d) == [den |-> d, num |-> n]

FracAdd(a, b) == Frac(a.num * b.den + b.num * a.den, a.den * b.den)

FracEq(a, b) == a.num * b.den = b.num * a.den

FracGeq(a, b) == a.num * b.den >= b.num * a.den

One == Frac(1, 1)

RECURSIVE FracSum(_)
FracSum(s) == IF s = << >> THEN Frac(0, 1) ELSE FracAdd(Head(s), FracSum(Tail(s)))

RECURSIVE IntSum(_)
IntSum(s) == IF s = << >> THEN 0 ELSE Head(s) + IntSum(Tail(s))

\* ------------------------------------------------------------ reply tokens

Tok(k, s, n) == [k |-> k, n |-> n, s |-> s]

LBRACE == Tok("{", "", 0)
RBRACE == Tok("}", "", 0)
LBRACK == Tok("[", "", 0)
RBRACK == Tok("]", "", 0)
COMMA == Tok(",", "", 0)
\* Free text without braces ("Here is the result:", a markdown fence).
TEXT == Tok("text", "", 0)
\* The key "predictions" with its colon.
KEY_PREDICTIONS == Tok("predictions:", "", 0)
\* A whole member under any other key ("error": "...").
OTHER_MEMBER == Tok("other", "", 0)
\* The member "model": "<label>".
ModelMember(label) == Tok("model", label, 0)
\* The member "confidence": <c>.
ConfidenceMember(c) == Tok("confidence", "", c)

\* A JSON object as json.loads returns it (a dict): each key is absent (<< >>)
\* or present with its value (<< v >>).
EmptyDict == [confidence |-> << >>, model |-> << >>, predictions |-> << >>]

HasKey(d, key) ==
  CASE key = "model" -> d.model # << >>
    [] key = "confidence" -> d.confidence # << >>
    [] key = "predictions" -> d.predictions # << >>

\* ---------------------------------------------------------------- json.dumps
\* What the remote model writes for a dict: used to build the replies.

\* An entry of the list: { "model": ..., "confidence": ... } with the keys it has.
DumpEntry(d) ==
  << LBRACE >>
    \o (IF HasKey(d, "model") THEN << ModelMember(d.model[1]) >> ELSE << >>)
    \o (IF HasKey(d, "model") /\ HasKey(d, "confidence") THEN << COMMA >> ELSE << >>)
    \o (IF HasKey(d, "confidence") THEN << ConfidenceMember(d.confidence[1]) >> ELSE << >>)
    \o << RBRACE >>

RECURSIVE DumpList(_)
DumpList(ds) ==
  IF ds = << >> THEN << >>
  ELSE IF Len(ds) = 1 THEN DumpEntry(ds[1])
  ELSE DumpEntry(ds[1]) \o << COMMA >> \o DumpList(Tail(ds))

\* { "predictions": [ ... ] }
Dump(d) ==
  << LBRACE, KEY_PREDICTIONS, LBRACK >> \o DumpList(d.predictions[1]) \o << RBRACK, RBRACE >>

\* ---------------------------------------------------------------- json.loads
\* One pass over the tokens.  mode is the parser's position in the grammar:
\*   "start"                 before the object
\*   "top0", "top1", "topM"  in the object: just opened, after a comma, after a member
\*   "arr?"                  after "predictions:"
\*   "arr0", "arr1", "arrM"  in the list: just opened, after a comma, after an entry
\*   "ent0", "ent1", "entM"  in an entry: just opened, after a comma, after a member
\*   "end"                   after the object;  "fail" is a JSONDecodeError.
\* top is the object read so far, list its entries so far, cur the open entry.

ParserStart == [cur |-> EmptyDict, list |-> << >>, mode |-> "start", top |-> EmptyDict]

\* A member of the object (top level) or of an entry: the key is set, a
\* repeated key keeps the last value, as a dict does.
WithMember(d, tok) ==
  CASE tok.k = "model" -> [d EXCEPT !.model = << tok.s >>]
    [] tok.k = "confidence" -> [d EXCEPT !.confidence = << tok.n >>]
    [] OTHER -> d

IsScalarMember(tok) == tok.k \in {"model", "confidence", "other"}

ParserStep(st, tok) ==
  LET fail == [st EXCEPT !.mode = "fail"]
      to(m) == [st EXCEPT !.mode = m]
  IN  CASE st.mode = "start" -> IF tok = LBRACE THEN to("top0") ELSE fail
        [] st.mode \in {"top0", "top1"} ->
             IF tok = RBRACE /\ st.mode = "top0" THEN to("end")
             ELSE IF tok = KEY_PREDICTIONS THEN to("arr?")
             ELSE IF IsScalarMember(tok)
               THEN [st EXCEPT !.mode = "topM", !.top = WithMember(st.top, tok)]
             ELSE fail
        [] st.mode = "topM" ->
             IF tok = COMMA THEN to("top1")
             ELSE IF tok = RBRACE THEN to("end")
             ELSE fail
        [] st.mode = "arr?" ->
             IF tok = LBRACK THEN [st EXCEPT !.mode = "arr0", !.list = << >>] ELSE fail
        [] st.mode \in {"arr0", "arr1"} ->
             IF tok = RBRACK /\ st.mode = "arr0"
             THEN [st EXCEPT !.mode = "topM", !.top.predictions = << << >> >>]
             ELSE IF tok = LBRACE THEN [st EXCEPT !.mode = "ent0", !.cur = EmptyDict]
             ELSE fail
        [] st.mode \in {"ent0", "ent1"} ->
             IF tok = RBRACE /\ st.mode = "ent0"
             THEN [st EXCEPT !.mode = "arrM", !.list = Append(st.list, st.cur)]
             ELSE IF IsScalarMember(tok)
               THEN [st EXCEPT !.mode = "entM", !.cur = WithMember(st.cur, tok)]
             ELSE fail
        [] st.mode = "entM" ->
             IF tok = COMMA THEN to("ent1")
             ELSE IF tok = RBRACE
               THEN [st EXCEPT !.mode = "arrM", !.list = Append(st.list, st.cur)]
             ELSE fail
        [] st.mode = "arrM" ->
             IF tok = COMMA THEN to("arr1")
             ELSE IF tok = RBRACK
               THEN [st EXCEPT !.mode = "topM", !.top.predictions = << st.list >>]
             ELSE fail
        [] OTHER -> fail

\* json.loads(json_str): the whole text must be one object; anything else
\* (empty text, a cut object, text after the object) raises JSONDecodeError.
json_loads(json_str) ==
  LET run[i \in 0..Len(json_str)] ==
        IF i = 0 THEN ParserStart ELSE ParserStep(run[i - 1], json_str[i])
      final == run[Len(json_str)]
  IN  IF final.mode = "end"
      THEN [raised |-> FALSE, value |-> final.top]
      ELSE [raised |-> TRUE, value |-> EmptyDict]

\* ------------------------------------------------------- str.find, str.rfind

\* 0-based position of the first occurrence, -1 when there is none.
find(content, tok) ==
  LET hits == { i \in 1..Len(content) : content[i] = tok }
  IN  IF hits = {} THEN -1 ELSE (CHOOSE i \in hits : \A j \in hits : i <= j) - 1

\* 0-based position of the last occurrence, -1 when there is none.
rfind(content, tok) ==
  LET hits == { i \in 1..Len(content) : content[i] = tok }
  IN  IF hits = {} THEN -1 ELSE (CHOOSE i \in hits : \A j \in hits : i >= j) - 1

\* content[a:b] for a, b >= 0.
Slice(content, a, b) == SubSeq(content, a + 1, IF b > Len(content) THEN Len(content) ELSE b)

\* ------------------------------------------- BikeDetectionModel.predict: try

\* Lines 103-107 and 119-120: the text from the first "{" to the last "}".
\* end_idx is rfind + 1, so it is never -1 and only a missing "{" raises here.
ExtractJson(content) ==
  LET start_idx == find(content, LBRACE)
      end_idx == rfind(content, RBRACE) + 1
  IN  IF start_idx # -1 /\ end_idx # -1
      THEN [json_str |-> Slice(content, start_idx, end_idx), raised |-> FALSE]
      ELSE [json_str |-> << >>, raised |-> TRUE]

\* A prediction as it is returned: the dict of the reply, its confidence rewritten.
Prediction(model, confidence) == [confidence |-> confidence, model |-> model]

Confidences(predictions) == [i \in 1..Len(predictions) |-> predictions[i].confidence[1]]

\* Normalize dividing by the number of predictions instead of their sum.
NormalizeByCount(predictions, total_confidence) ==
  [i \in 1..Len(predictions) |->
     Prediction(predictions[i].model,
                IF total_confidence > 0
                THEN Frac(predictions[i].confidence[1], Len(predictions))
                ELSE Frac(predictions[i].confidence[1], 1))]

\* Lines 111-113: divide by the sum only when it is positive; the dicts keep
\* their other keys and their order.
Normalize(predictions, total_confidence) ==
  [i \in 1..Len(predictions) |->
     Prediction(predictions[i].model,
                IF total_confidence > 0
                THEN Frac(predictions[i].confidence[1], total_confidence)
                ELSE Frac(predictions[i].confidence[1], 1))]

\* TopPrediction taking the last element ([-1]) instead of the first.
TopPredictionLast(predictions) ==
  IF predictions # << >> THEN << predictions[Len(predictions)] >> ELSE << >>

\* Line 117 and line 138: the first element, None (<< >>) for an empty list.
TopPrediction(predictions) ==
  IF predictions # << >> THEN << predictions[1] >> ELSE << >>

Raised == [predictions |-> << >>, raised |-> TRUE, top_prediction |-> << >>]

\* NormalizeResult keeping only the predictions whose label is on the list.
NormalizeResultListedOnly(result) ==
  IF ~HasKey(result, "predictions") THEN Raised
  ELSE LET predictions == result.predictions[1]
           listed == SelectSeq(predictions,
                               LAMBDA d : HasKey(d, "model") /\ d.model[1] \in Labels)
       IN  IF \E i \in 1..Len(predictions) : ~HasKey(predictions[i], "confidence")
           THEN Raised
           ELSE LET normalized == Normalize(listed, IntSum(Confidences(listed)))
                IN  [predictions |-> normalized,
                     raised |-> FALSE,
                     top_prediction |-> TopPrediction(normalized)]

\* NormalizeResult reading with dict.get: a missing "predictions" is an empty
\* list, a missing "confidence" is 0.
NormalizeResultDefaults(result) ==
  LET predictions == IF HasKey(result, "predictions") THEN result.predictions[1]
                     ELSE << >>
      filled == [i \in 1..Len(predictions) |->
                   IF HasKey(predictions[i], "confidence") THEN predictions[i]
                   ELSE [predictions[i] EXCEPT !.confidence = << 0 >>]]
      normalized == Normalize(filled, IntSum(Confidences(filled)))
  IN  [predictions |-> normalized,
       raised |-> FALSE,
       top_prediction |-> TopPrediction(normalized)]

\* Lines 108-118 on the parsed dict: result["predictions"] and
\* pred["confidence"] raise KeyError when the key is missing; "model" is never read.
NormalizeResult(result) ==
  IF ~HasKey(result, "predictions") THEN Raised
  ELSE LET predictions == result.predictions[1]
       IN  IF \E i \in 1..Len(predictions) : ~HasKey(predictions[i], "confidence")
           THEN Raised
           ELSE LET normalized == Normalize(predictions, IntSum(Confidences(predictions)))
                IN  [predictions |-> normalized,
                     raised |-> FALSE,
                     top_prediction |-> TopPrediction(normalized)]

\* Lines 101-120: the body of the try after the remote call returned `content`.
ParseReply(content) ==
  LET extracted == ExtractJson(content)
      loaded == json_loads(extracted.json_str)
  IN  IF extracted.raised \/ loaded.raised THEN Raised
      ELSE NormalizeResult(loaded.value)

\* ---------------------------------------- BikeDetectionModel.predict: except

\* np.argsort of a vector of ten: the indices in ascending order of value, equal
\* values in index order (the sort of so short an array is an insertion sort).
RECURSIVE InsertIndex(_, _, _)
InsertIndex(sorted, i, v) ==
  IF sorted = << >> THEN << i >>
  ELSE IF v[Head(sorted)] <= v[i] THEN << Head(sorted) >> \o InsertIndex(Tail(sorted), i, v)
  ELSE << i >> \o sorted

RECURSIVE ArgSortUpTo(_, _)
ArgSortUpTo(v, n) == IF n = 0 THEN << >> ELSE InsertIndex(ArgSortUpTo(v, n - 1), n, v)

argsort(v) == ArgSortUpTo(v, Len(v))

Reverse(s) == [i \in 1..Len(s) |-> s[Len(s) + 1 - i]]

\* TopIndices without the reversal [::-1].
TopIndicesAscending(scores) ==
  LET order == argsort(scores)
      n == Len(order)
  IN  SubSeq(order, IF n > TopK THEN n - TopK + 1 ELSE 1, n)

\* Line 127: np.argsort(predictions)[-3:][::-1].  Dividing by the positive sum
\* keeps the order, so the scores are sorted as drawn.
TopIndices(scores) ==
  LET order == argsort(scores)
      n == Len(order)
  IN  Reverse(SubSeq(order, IF n > TopK THEN n - TopK + 1 ELSE 1, n))

\* Fallback normalising the three kept scores instead of all ten.
FallbackNormalizeKept(scores) ==
  LET top_indices == TopIndices(scores)
      kept == IntSum([j \in 1..Len(top_indices) |-> scores[top_indices[j]]])
      results == [j \in 1..Len(top_indices) |->
                    Prediction(<< BIKE_MODELS[top_indices[j]] >>,
                               Frac(scores[top_indices[j]], kept))]
  IN  [predictions |-> results, top_prediction |-> TopPrediction(results)]

\* Lines 124-139: normalise the ten random scores, keep the three largest.
Fallback(scores) ==
  LET total == IntSum(scores)
      top_indices == TopIndices(scores)
      results == [j \in 1..Len(top_indices) |->
                    Prediction(<< BIKE_MODELS[top_indices[j]] >>,
                               Frac(scores[top_indices[j]], total))]
  IN  [predictions |-> results, top_prediction |-> TopPrediction(results)]

\* ------------------------------------------------ BikeDetectionModel: client

\* self.client = None
None == 0

\* load_model setting is_loaded before it checks the key.
load_model_FlagFirst(self, api_key, fresh) ==
  IF ~api_key
  THEN [client |-> self.client, is_loaded |-> TRUE, raised |-> TRUE]
  ELSE [client |-> fresh, is_loaded |-> TRUE, raised |-> FALSE]

\* load_model forgetting to set is_loaded.
load_model_NoFlag(self, api_key, fresh) ==
  IF ~api_key
  THEN [client |-> self.client, is_loaded |-> self.is_loaded, raised |-> TRUE]
  ELSE [client |-> fresh, is_loaded |-> self.is_loaded, raised |-> FALSE]

\* Lines 45-51.  `fresh` is the OpenAI object the constructor would return.
load_model(self, api_key, fresh) ==
  IF ~api_key
  THEN [client |-> self.client, is_loaded |-> self.is_loaded, raised |-> TRUE]
  ELSE [client |-> fresh, is_loaded |-> TRUE, raised |-> FALSE]

\* Image.save(format="JPEG") writes RGB (and grey or CMYK) images only, and
\* none with a side beyond the format's limit.
JpegWritable(image) == image.mode \in {"RGB", "L", "CMYK"} /\ ~image.oversize

MissingKey == "OPENAI_API_KEY is not set"
NoClient == "OpenAI client is not initialised"
CannotWriteJpeg == "cannot write the image as JPEG"
NotAnImage == "400: the uploaded file must be an image"
NoneHasNoStartswith == "'NoneType' object has no attribute 'startswith'"
CannotIdentify == "cannot identify image file"

\* predict with load_model, the client check and the JPEG encoding moved inside
\* the try, so that the except branch absorbs their failures too.
predict_LoadInsideTry(self, api_key, fresh, image, outcome, scores) ==
  LET loaded == IF ~self.is_loaded THEN load_model(self, api_key, fresh)
                ELSE [client |-> self.client,
                      is_loaded |-> self.is_loaded,
                      raised |-> FALSE]
      parsed == IF outcome.raised THEN Raised ELSE ParseReply(outcome.content)
      fallback == Fallback(scores)
  IN  IF loaded.raised \/ loaded.client = None \/ ~JpegWritable(image) \/ parsed.raised
      THEN [client |-> loaded.client,
            error |-> "",
            is_loaded |-> loaded.is_loaded,
            path |-> "fallback",
            predictions |-> fallback.predictions,
            top_prediction |-> fallback.top_prediction]
      ELSE [client |-> loaded.client,
            error |-> "",
            is_loaded |-> loaded.is_loaded,
            path |-> "remote",
            predictions |-> parsed.predictions,
            top_prediction |-> parsed.top_prediction]

\* Lines 53-139.  `outcome` is what the remote call does (raise, or return a
\* reply text), `scores` what np.random.random returns if it is called.
\* path: "raised" (an exception left predict), "remote" (line 115), "fallback".
predict(self, api_key, fresh, image, outcome, scores) ==
  LET loaded == IF ~self.is_loaded THEN load_model(self, api_key, fresh)
                ELSE [client |-> self.client,
                      is_loaded |-> self.is_loaded,
                      raised |-> FALSE]
      failed(msg) == [client |-> loaded.client,
                      error |-> msg,
                      is_loaded |-> loaded.is_loaded,
                      path |-> "raised",
                      predictions |-> << >>,
                      top_prediction |-> << >>]
      parsed == IF outcome.raised THEN Raised ELSE ParseReply(outcome.content)
      fallback == Fallback(scores)
  IN  IF loaded.raised THEN failed(MissingKey)
      ELSE IF loaded.client = None THEN failed(NoClient)
      ELSE IF ~JpegWritable(image) THEN failed(CannotWriteJpeg)
      ELSE IF ~parsed.raised
        THEN [client |-> loaded.client,
              error |-> "",
              is_loaded |-> loaded.is_loaded,
              path |-> "remote",
              predictions |-> parsed.predictions,
              top_prediction |-> parsed.top_prediction]
      ELSE [client |-> loaded.client,
            error |-> "",
            is_loaded |-> loaded.is_loaded,
            path |-> "fallback",
            predictions |-> fallback.predictions,
            top_prediction |-> fallback.top_prediction]

\* ------------------------------------------------------------------ uploads

\* file.content_type in parts; << >> is None (the part declares no type).
NoContentType == << >>
ContentTypes == { << "image", "/", "png" >>, << "text", "/", "plain" >>, NoContentType }

\* str.startswith
startswith(str, prefix) ==
  Len(str) >= Len(prefix) /\ SubSeq(str, 1, Len(prefix)) = prefix

\* Line 156.
IsImageType(content_type) == startswith(content_type, << "image", "/" >>)

\* An upload: its declared type, whether Image.open can decode its bytes, the
\* mode of the decoded image and whether a side of it is beyond JPEG's limit.
Upload(ct, decodable, mode, oversize) ==
  [content_type |-> ct, decodable |-> decodable, mode |-> mode, oversize |-> oversize]

NoUpload == Upload(NoContentType, FALSE, "RGB", FALSE)

\* An RGB image, an RGBA image too large for JPEG, and undecodable bytes under
\* each declared type.
Uploads ==
  { Upload(<< "image", "/", "png" >>, TRUE, "RGB", FALSE),
    Upload(<< "image", "/", "png" >>, TRUE, "RGBA", TRUE) }
    \cup { Upload(ct, FALSE, "RGB", FALSE) : ct \in ContentTypes }

\* Lines 162-163.
ConvertedMode(mode) == IF mode # "RGB" THEN "RGB" ELSE mode

\* The image handed to predict.
Converted(upload) == [mode |-> ConvertedMode(upload.mode), oversize |-> upload.oversize]

\* --------------------------------------------------- replies of the remote

ConfValues == (-1)..MaxConf

\* The dicts the remote model may put at position i of its list: the listed
\* label of that position with any confidence, or one deviation from the shape
\* the prompt asks for (a label not on the list, no "model", no "confidence").
Entries(i) ==
  { [EmptyDict EXCEPT !.model = << BIKE_MODELS[i] >>, !.confidence = << c >>] :
      c \in ConfValues }
    \cup { [EmptyDict EXCEPT !.model = << UnknownLabel >>, !.confidence = << 1 >>],
           [EmptyDict EXCEPT !.confidence = << 1 >>],
           [EmptyDict EXCEPT !.model = << BIKE_MODELS[i] >>] }

RECURSIVE PredictionLists(_)
PredictionLists(n) ==
  IF n = 0 THEN { << >> }
  ELSE { Append(l, e) : l \in PredictionLists(n - 1), e \in Entries(n) }

ReplyDicts(maxLen) ==
  { [EmptyDict EXCEPT !.predictions = << l >>] :
      l \in UNION { PredictionLists(n) : n \in 0..maxLen } }

\* Whole objects: every dict with a predictions list, the empty object, an
\* object with another key only.
WholeReplies(maxLen) ==
  { Dump(d) : d \in ReplyDicts(maxLen) }
    \cup { << LBRACE, RBRACE >>, << LBRACE, OTHER_MEMBER, RBRACE >> }

\* A reply cut short (max_tokens), and a reply with text around the object.
CutReplies(maxLen) ==
  UNION { { SubSeq(r, 1, k) : k \in 0..(Len(r) - 1) } : r \in WholeReplies(maxLen) }

WrappedReplies(maxLen) == { << TEXT >> \o r \o << TEXT >> : r \in WholeReplies(maxLen) }

Replies == WholeReplies(MaxPreds) \cup CutReplies(MaxPreds) \cup WrappedReplies(MaxPreds)

Outcome(raised, content) == [content |-> content, raised |-> raised]

\* The remote call raised (network, provider, a reply without content).
RemoteError == Outcome(TRUE, << >>)

\* What the remote call does: it raises, or it returns a reply.
RemoteOutcomes == { RemoteError } \cup { Outcome(FALSE, c) : c \in Replies }

\* The reply the prompt asks for, with the confidences 2 and 1.
GoodReply ==
  Dump([EmptyDict EXCEPT !.predictions =
          << << [EmptyDict EXCEPT !.model = << BIKE_MODELS[1] >>, !.confidence = << 2 >>],
                [EmptyDict EXCEPT !.model = << BIKE_MODELS[2] >>, !.confidence = << 1 >>]
             >> >>])

\* What the remote call does in the service specification: it raises, it
\* answers as asked, or it answers with text that holds no JSON.
ServiceOutcomes == { RemoteError, Outcome(FALSE, GoodReply), Outcome(FALSE, << TEXT >>) }

\* What it does in the fallback specification: it raises, or it answers with
\* text that holds no JSON.
FailingOutcomes == { RemoteError, Outcome(FALSE, << TEXT >>) }

\* ------------------------------------------------------------ random scores

Indices == 1..Len(BIKE_MODELS)

\* np.random.random(10): ten scores of [0, 1).  The draw of ten zeros (2^-530)
\* is left out: its sum divides by zero.
ScoreVectors == { v \in [Indices -> 0..MaxScore] : \E i \in Indices : v[i] > 0 }

\* The draw of the service and reply specifications: the largest score on the
\* first four labels, zero on the others.
ServiceDraws == { [i \in Indices |-> IF i <= 4 THEN MaxScore ELSE 0] }

\* -------------------------------------------------------------------- state

VARIABLES
  env_key,      \* OPENAI_API_KEY is set in the environment of the process
  client,       \* bike_model.client: None, or the OpenAI object it holds
  is_loaded,    \* bike_model.is_loaded
  constructed,  \* OpenAI objects constructed so far (the last one is `constructed`)
  pc,           \* per request slot: "idle", "reading" (awaiting file.read()), "done"
  file,         \* per request slot: the upload of its request
  invoked,      \* the slots whose request has called bike_model.predict
  call,         \* the last call of predict: its request, remote outcome, draw, path
  response      \* the last response sent: request, status, detail or result

vars == << env_key, client, is_loaded, constructed, pc, file, invoked, call, response >>

Requests == 1..NumRequests

NoCall == [outcome |-> RemoteError, path |-> "none", req |-> 0, scores |-> << >>]

NoResponse ==
  [detail |-> "",
   predictions |-> << >>,
   req |-> 0,
   status |-> 0,
   success |-> FALSE,
   top_prediction |-> << >>]

\* Line 175: HTTPException(500, "... error while processing the image: " + str(e)).
ErrorResponse(p, message) ==
  [detail |-> message,
   predictions |-> << >>,
   req |-> p,
   status |-> 500,
   success |-> FALSE,
   top_prediction |-> << >>]

\* Lines 167-172.
SuccessResponse(p, result) ==
  [detail |-> "",
   predictions |-> result.predictions,
   req |-> p,
   status |-> 200,
   success |-> TRUE,
   top_prediction |-> result.top_prediction]

Init ==
  /\ env_key \in BOOLEAN
  /\ client = None
  /\ is_loaded = FALSE
  /\ constructed = 0
  /\ pc = [p \in Requests |-> "idle"]
  /\ file = [p \in Requests |-> NoUpload]
  /\ invoked = {}
  /\ call = NoCall
  /\ response = NoResponse

\* Lines 155-159 and 174-175: a request arrives and its handler runs up to the
\* await of file.read().  The HTTPException of line 157 is raised inside the try
\* and is an Exception, so line 174 catches it and line 175 answers 500.
\* Outcome of the content-type check: "" when it passes, else str(e).
ContentTypeError(content_type) ==
  IF content_type = NoContentType THEN NoneHasNoStartswith
  ELSE IF ~IsImageType(content_type) THEN NotAnImage
  ELSE ""

Begin(p) ==
  /\ pc[p] = "idle"
  /\ \E f \in Uploads :
       /\ file' = [file EXCEPT ![p] = f]
       /\ IF ContentTypeError(f.content_type) # ""
          THEN /\ pc' = [pc EXCEPT ![p] = "done"]
               /\ response' = ErrorResponse(p, ContentTypeError(f.content_type))
          ELSE /\ pc' = [pc EXCEPT ![p] = "reading"]
               /\ UNCHANGED response
  /\ UNCHANGED << env_key, client, is_loaded, constructed, invoked, call >>

\* Lines 159-175: file.read() returned; the rest of the handler runs without
\* another await (predict is a plain function), so it is one step.
Resume(p, outcomes, draws) ==
  /\ pc[p] = "reading"
  /\ pc' = [pc EXCEPT ![p] = "done"]
  /\ UNCHANGED env_key
  /\ file' = [file EXCEPT ![p].mode = IF file[p].decodable
                                      THEN ConvertedMode(file[p].mode)
                                      ELSE file[p].mode]
  /\ IF ~file[p].decodable
     THEN /\ response' = ErrorResponse(p, CannotIdentify)
          /\ UNCHANGED << client, is_loaded, constructed, invoked, call >>
     ELSE \E outcome \in outcomes, scores \in draws :
            LET self == [client |-> client, is_loaded |-> is_loaded]
                r == predict(self, env_key, constructed + 1,
                             Converted(file[p]), outcome, scores)
            IN  /\ invoked' = invoked \cup {p}
                /\ client' = r.client
                /\ is_loaded' = r.is_loaded
                /\ constructed' = IF r.client # client THEN constructed + 1
                                  ELSE constructed
                /\ call' = [outcome |-> IF r.path = "raised" THEN RemoteError ELSE outcome,
                            path |-> r.path,
                            req |-> p,
                            scores |-> IF r.path = "fallback" THEN scores ELSE << >>]
                /\ response' = IF r.path = "raised" THEN ErrorResponse(p, r.error)
                               ELSE SuccessResponse(p, r)

\* The response has been delivered and the slot takes the next request.
Release(p) ==
  /\ pc[p] = "done"
  /\ pc' = [pc EXCEPT ![p] = "idle"]
  /\ file' = [file EXCEPT ![p] = NoUpload]
  /\ invoked' = invoked \ {p}
  /\ UNCHANGED << env_key, client, is_loaded, constructed, call, response >>

\* The service: concurrent requests, one after another in each slot.
Next ==
  \E p \in Requests :
    \/ Begin(p)
    \/ Resume(p, ServiceOutcomes, ServiceDraws)
    \/ Release(p)

Spec == Init /\ [][Next]_vars

\* One request, every reply of the remote model.
ReplyNext == Begin(1) \/ Resume(1, RemoteOutcomes, ServiceDraws)

ReplySpec == Init /\ [][ReplyNext]_vars

\* One request, every draw of the fallback.
FallbackNext == Begin(1) \/ Resume(1, FailingOutcomes, ScoreVectors)

FallbackSpec == Init /\ [][FallbackNext]_vars

\* ----------------------------------------------------------------- claims

\* The response on hand is the one of request p, whose handler has finished.
Answered(p) == pc[p] = "done" /\ response.req = p

\* The last call of predict was made for request p, whose handler has finished.
Called(p) == Answered(p) /\ p \in invoked /\ call.req = p

ResponseConfidences ==
  [i \in 1..Len(response.predictions) |-> response.predictions[i].confidence]

ResponseSum == FracSum(ResponseConfidences)

\* The reply of the last call as JSON, and its predictions list.
ReplyJson == json_loads(ExtractJson(call.outcome.content).json_str)

ReplyHasList == ~ReplyJson.raised /\ HasKey(ReplyJson.value, "predictions")

ReplyList == ReplyJson.value.predictions[1]

ReplyHasConfidences ==
  ReplyHasList /\ \A i \in 1..Len(ReplyList) : HasKey(ReplyList[i], "confidence")

ReplyTotal == IntSum(Confidences(ReplyList))

\* The response is a success carrying three predictions with distinct labels
\* of BIKE_MODELS.
ThreeListedLabels ==
  /\ response.status = 200
  /\ response.success
  /\ Len(response.predictions) = 3
  /\ \A i \in 1..Len(response.predictions) :
       /\ response.predictions[i].model # << >>
       /\ response.predictions[i].model[1] \in Labels
  /\ \A i, j \in 1..Len(response.predictions) :
       i # j => response.predictions[i].model # response.predictions[j].model

NonIncreasing ==
  \A i \in 1..(Len(response.predictions) - 1) :
    FracGeq(response.predictions[i].confidence, response.predictions[i + 1].confidence)

\* C1 (as claimed): a request whose declared content type does not start with
\* "image/" is answered with status 400, and predict is not called for it.
C1_NonImageAnswered400 ==
  \A p \in Requests :
    (Answered(p) /\ file[p].content_type # NoContentType
       /\ ~IsImageType(file[p].content_type))
      => (response.status = 400 /\ p \notin invoked)

\* C2: with a decodable image and an initialised client, when the remote call
\* raises or its reply does not parse, the answer is a success with exactly
\* three predictions, distinct labels of BIKE_MODELS, confidences non-increasing.
C2_FallbackOnRemoteFailure ==
  \A p \in Requests :
    (Called(p) /\ file[p].decodable /\ ~file[p].oversize /\ client # None
       /\ (call.outcome.raised \/ ParseReply(call.outcome.content).raised))
      => (call.path = "fallback" /\ ThreeListedLabels /\ NonIncreasing)

C2_Witness ==
  /\ Called(1) /\ call.path = "fallback" /\ call.outcome.raised
  /\ response.status = 200
  /\ Len(response.predictions) = 3
  /\ ~FracEq(response.predictions[1].confidence, response.predictions[3].confidence)

\* C3 (as claimed): on the remote path the returned confidences sum to 1,
\* whatever list the reply holds.
C3_RemoteSumsToOne ==
  call.path = "remote" => FracEq(ResponseSum, One)

\* C3 (amended): on the remote path the returned confidences sum to 1 when the
\* reply's confidences have a positive sum; otherwise (zero or negative sum,
\* empty list) they are returned as they came and do not sum to 1.
C3_RemoteSumsToOneIfPositive ==
  call.path = "remote" =>
    /\ ReplyHasConfidences
    /\ IF ReplyTotal > 0 THEN FracEq(ResponseSum, One)
       ELSE /\ FracEq(ResponseSum, Frac(ReplyTotal, 1))
            /\ ~FracEq(ResponseSum, One)

C3_Witness ==
  /\ call.path = "remote" /\ response.status = 200
  /\ Len(response.predictions) = 3
  /\ ReplyTotal > 0
  /\ ~FracEq(response.predictions[1].confidence, response.predictions[2].confidence)

\* C4 (as claimed): on the fallback path the three returned confidences sum to 1.
C4_FallbackSumsToOne ==
  call.path = "fallback" => FracEq(ResponseSum, One)

LabelIndex(label) == CHOOSE i \in Indices : BIKE_MODELS[i] = label

\* C4 (amended): on the fallback path each returned confidence is the score of
\* its label over the sum of all ten scores, so the three sum to at most 1, and
\* to exactly 1 only when the seven labels left out all scored 0.
C4_FallbackSumAtMostOne ==
  call.path = "fallback" =>
    /\ \A j \in 1..Len(response.predictions) :
         FracEq(response.predictions[j].confidence,
                Frac(call.scores[LabelIndex(response.predictions[j].model[1])],
                     IntSum(call.scores)))
    /\ FracGeq(One, ResponseSum)
    /\ FracEq(ResponseSum, One) <=> Cardinality({ i \in Indices : call.scores[i] > 0 }) <= 3

C4_Witness ==
  /\ call.path = "fallback" /\ response.status = 200
  /\ Len(response.predictions) = 3
  /\ ~FracEq(ResponseSum, One)
  /\ Cardinality({ i \in Indices : call.scores[i] > 0 }) > 3

\* C5 (as claimed): every success response carries exactly three predictions
\* whose labels are in BIKE_MODELS.
C5_AlwaysThreeListedLabels ==
  response.status = 200 =>
    /\ Len(response.predictions) = 3
    /\ \A i \in 1..Len(response.predictions) :
         /\ response.predictions[i].model # << >>
         /\ response.predictions[i].model[1] \in Labels

\* C5 (amended): a success response of the fallback path carries exactly three
\* predictions with labels of BIKE_MODELS; one of the remote path carries the
\* list of the reply, entry for entry with the reply's labels, whatever its
\* length and whether or not the labels are listed.
C5_ThreeListedOnFallbackOnly ==
  response.status = 200 =>
    /\ call.path = "fallback" => ThreeListedLabels
    /\ call.path = "remote" =>
         /\ ReplyHasList
         /\ Len(response.predictions) = Len(ReplyList)
         /\ \A i \in 1..Len(ReplyList) : response.predictions[i].model = ReplyList[i].model

C5_Witness ==
  /\ response.status = 200 /\ call.path = "remote"
  /\ Len(response.predictions) = 2
  /\ response.predictions[2].model = << UnknownLabel >>

\* C6: for a reply whose confidences have a positive sum S, predict returns the
\* reply's predictions in order with their labels, each confidence c as c / S,
\* and top_prediction is the first of them.
C6_NormalizedInOrder ==
  (call.path = "remote" /\ ReplyHasConfidences /\ ReplyTotal > 0) =>
    /\ Len(response.predictions) = Len(ReplyList)
    /\ \A i \in 1..Len(ReplyList) :
         /\ response.predictions[i].model = ReplyList[i].model
         /\ FracEq(response.predictions[i].confidence,
                   Frac(ReplyList[i].confidence[1], ReplyTotal))
    /\ response.top_prediction = << response.predictions[1] >>

\* Confidences 2, 1, 1 come back as 1/2, 1/4, 1/4, the first label on top.
C6_Witness ==
  /\ call.path = "remote" /\ response.status = 200
  /\ Confidences(ReplyList) = << 2, 1, 1 >>
  /\ Len(response.predictions) = 3
  /\ FracEq(response.predictions[1].confidence, Frac(1, 2))
  /\ FracEq(response.predictions[2].confidence, Frac(1, 4))
  /\ FracEq(response.predictions[3].confidence, Frac(1, 4))
  /\ response.top_prediction # << >>
  /\ response.top_prediction[1].model = << BIKE_MODELS[1] >>

\* C7 (as claimed): whatever fails inside predict, the missing key included,
\* the request that called predict is answered with a success.
C7_EveryAdapterFailureAbsorbed ==
  \A p \in Requests : Called(p) => response.status = 200

\* C7 (amended): a failure of the remote call or of the reply parsing is absorbed
\* into the fallback; a missing key fails load_model, and an image that cannot
\* be written as JPEG fails image.save, before the try: either reaches the
\* caller as a 500 carrying its message.
C7_OnlyTryFailuresAbsorbed ==
  \A p \in Requests :
    Called(p) =>
      IF ~env_key
      THEN call.path = "raised" /\ response.status = 500 /\ response.detail = MissingKey
      ELSE IF file[p].oversize
      THEN /\ call.path = "raised" /\ response.status = 500
           /\ response.detail = CannotWriteJpeg
      ELSE /\ response.status = 200
           /\ call.path \in {"remote", "fallback"}
           /\ (call.outcome.raised \/ ParseReply(call.outcome.content).raised)
                => call.path = "fallback"

C7_Witness ==
  /\ ~env_key /\ Called(1) /\ response.status = 500 /\ response.detail = MissingKey

\* C8: while the key is absent every request that reaches predict is answered
\* with the missing-key error, and the adapter stays unloaded: is_loaded false,
\* client None, no client constructed.
C8_MissingKeyFailsTheSame ==
  ~env_key =>
    /\ ~is_loaded /\ client = None /\ constructed = 0
    /\ \A p \in Requests :
         Called(p) => (response.status = 500 /\ response.detail = MissingKey)

\* Two requests have reached predict, the second answered like the first.
C8_Witness ==
  /\ ~env_key /\ Called(2) /\ 1 \in invoked /\ pc[1] = "done"
  /\ response.status = 500 /\ response.detail = MissingKey
  /\ ~is_loaded /\ client = None

\* C9: under every interleaving the client handle is written once: a client
\* once set never changes, at most one client is ever constructed, and
\* is_loaded implies that the client is set.
C9_ClientWriteOnce ==
  /\ [](is_loaded => client # None)
  /\ [](constructed <= 1)
  /\ [][client # None => client' = client]_vars

\* Two requests suspended together have both called predict with the key set.
C9_Witness ==
  /\ env_key /\ is_loaded /\ client # None
  /\ invoked = {1, 2} /\ pc[1] = "done" /\ pc[2] = "done"

NoOpenBrace(content) == \A i \in 1..Len(content) : content[i] # LBRACE

NoCloseBrace(content) == \A i \in 1..Len(content) : content[i] # RBRACE

ReplyEntryLacks(key) ==
  ReplyHasList /\ \E i \in 1..Len(ReplyList) : ~HasKey(ReplyList[i], key)

\* The last call got a reply (the remote call did not raise) and came back.
GotReply == call.path \in {"remote", "fallback"} /\ ~call.outcome.raised

\* C10 (as claimed): a reply without "{", with "{" but without "}", with a
\* brace-delimited text that is not JSON, without the "predictions" key, or
\* with an entry lacking "model" or "confidence" takes the fallback path.
C10_EveryParseFailureFallsBack ==
  (GotReply
     /\ \/ NoOpenBrace(call.outcome.content)
        \/ NoCloseBrace(call.outcome.content)
        \/ ReplyJson.raised
        \/ ~HasKey(ReplyJson.value, "predictions")
        \/ ReplyEntryLacks("confidence")
        \/ ReplyEntryLacks("model"))
    => call.path = "fallback"

\* C10 (amended): the same without the "model" case: an entry that lacks only
\* "model" is not a failure, the reply is normalised and returned with that
\* entry as it is.
C10_ParseFailureFallsBackButModel ==
  GotReply =>
    IF \/ NoOpenBrace(call.outcome.content)
       \/ NoCloseBrace(call.outcome.content)
       \/ ReplyJson.raised
       \/ ~HasKey(ReplyJson.value, "predictions")
       \/ ReplyEntryLacks("confidence")
    THEN call.path = "fallback"
    ELSE /\ call.path = "remote"
         /\ \A i \in 1..Len(ReplyList) : response.predictions[i].model = ReplyList[i].model

C10_Witness ==
  /\ GotReply /\ call.path = "fallback" /\ response.status = 200
  /\ ~NoOpenBrace(call.outcome.content)
  /\ ~ReplyJson.raised
  /\ ReplyEntryLacks("confidence")

====
